---- MODULE Spec2Model ----
(***************************************************************************)
(* The field / validation / message state engine of vue-simple-validation: *)
(* ValidationContainer (rule registry), FieldContainer (field store),      *)
(* MessageContainer (message store) and the Validator that ties them       *)
(* together.  The state is the one left by Plugin.install: one module-wide *)
(* validator whose registry already holds the default `required` rule.     *)
(***************************************************************************)
EXTENDS Integers, Sequences, FiniteSets, TLC

(***************************************************************************)
(* Bounds of the model.                                                    *)
(***************************************************************************)
\* how many distinct field ids callers use
MaxFields == 2

(***************************************************************************)
(* JavaScript values.  A value is a record [k, p, u, o]:                   *)
(*   k  the kind: "undefined", "null", "string", "number", "boolean",      *)
(*      "array" or "object";                                                *)
(*   p  for a string its characters; for a number or a boolean its         *)
(*      literal; for an array its elements (one character each); for an    *)
(*      object the names (one character each) of the own properties that   *)
(*      hold a JSON value;                                                 *)
(*   u  for an object the names of the own properties that hold undefined; *)
(*   o  for an object whose object it is: "caller" for the object a caller *)
(*      holds and hands in, "store" for one JSON.parse made for the store. *)
(***************************************************************************)
Undefined == [k |-> "undefined", p |-> "", u |-> "", o |-> ""]
Null == [k |-> "null", p |-> "", u |-> "", o |-> ""]
Str(s) == [k |-> "string", p |-> s, u |-> "", o |-> ""]
Num(lit) == [k |-> "number", p |-> lit, u |-> "", o |-> ""]
Boolean(lit) == [k |-> "boolean", p |-> lit, u |-> "", o |-> ""]
Arr(elems, owner) == [k |-> "array", p |-> elems, u |-> "", o |-> owner]
Obj(props, undefProps, owner) ==
  [k |-> "object", p |-> props, u |-> undefProps, o |-> owner]

\* the values callers hand to the directive / to $validation.validate
Values == {Undefined, Str(""), Str("a"), Obj("", "a", "caller")}

\* typeof v
TypeOf(v) ==
  CASE v.k = "undefined" -> "undefined"
    [] v.k = "string" -> "string"
    [] v.k = "number" -> "number"
    [] v.k = "boolean" -> "boolean"
    [] OTHER -> "object"

\* Array.isArray(v)
IsArray(v) == v.k = "array"

\* !!v
Truthy(v) ==
  CASE v.k = "undefined" -> FALSE
    [] v.k = "null" -> FALSE
    [] v.k = "string" -> v.p # ""
    [] v.k = "number" -> v.p # "0"
    [] v.k = "boolean" -> v.p = "true"
    [] OTHER -> TRUE

\* JSON.stringify(v): the text, or the token undefined when v is undefined.
\* Properties holding undefined are left out of an object's text.
JSONStringify(v) ==
  CASE v.k = "undefined" -> "undefined"
    [] v.k = "null" -> "null"
    [] v.k = "string" -> "\"" \o v.p \o "\""
    [] v.k \in {"number", "boolean"} -> v.p
    [] v.k = "array" -> "[" \o v.p \o "]"
    [] OTHER -> "{" \o v.p \o "}"

\* the values JSON text can denote
JSONValues ==
  {Null, Str(""), Str(" "), Str("a"),
   Obj("", "", "store"), Obj("a", "", "store"),
   Num("0"), Num("1"), Boolean("false"), Boolean("true"),
   Arr("", "store"), Arr("a", "store")}

\* JSON.parse(s)
JSONParse(s) == CHOOSE w \in JSONValues : JSONStringify(w) = s

\* a clone that hands back the object it was given
clone_Shallow(obj) == IF TypeOf(obj) # "undefined" THEN obj ELSE Str("")

\* util.js clone: undefined becomes '', everything else a JSON round trip
clone(obj) ==
  LET o == IF TypeOf(obj) # "undefined" THEN obj ELSE Str("")
  IN JSONParse(JSONStringify(o))

\* a === b.  Two objects are identical only when they are the same object:
\* the caller's object and a stored one never are, and the engine compares
\* a stored object only with itself.
StrictEquals(a, b) == a = b

\* `${v}` in a template literal
TemplateString(v) ==
  CASE v.k = "undefined" -> "undefined"
    [] v.k = "null" -> "null"
    [] v.k \in {"string", "number", "boolean", "array"} -> v.p
    [] OTHER -> "[object Object]"

\* Object.keys(v).length of an object; Object.keys raises for null and
\* undefined
KeyCount(v) == Len(v.p) + Len(v.u)
ObjectKeysThrows(v) == v.k \in {"undefined", "null"}

\* v.length is a number (strings, arrays); for every other value of the
\* model it is undefined, or reading it raises (undefined, null)
HasLength(v) == v.k \in {"string", "array"}
Length(v) == Len(v.p)
LengthThrows(v) == v.k \in {"undefined", "null"}

\* String.prototype.trim on the strings of the model
Trim(s) == IF s = " " THEN "" ELSE s

(***************************************************************************)
(* Rules (validation objects).  A rule is a record; "" stands for a        *)
(* property the object does not have.                                      *)
(*   message     the text, or the name of a message function               *)
(*   comparison  the name of the equality function                         *)
(*   validate    the name of the predicate                                 *)
(*   data        the name of the data function                             *)
(*   states      the sub-states in declaration order: [key, validate,      *)
(*               message]                                                  *)
(***************************************************************************)
NoRule ==
  [present |-> FALSE, message |-> "", comparison |-> "", validate |-> "",
   data |-> "", states |-> <<>>]

\* defaultValidationMethods.required, after ValidationContainer.add gave it
\* an empty states object
RequiredRule ==
  [present |-> TRUE, message |-> "This field is required.",
   comparison |-> "required", validate |-> "required", data |-> "",
   states |-> <<>>]

\* the `text` rule of the README: no comparison of its own, a data function
\* and the sub-state characterlimit with a message function; declared after
\* it, a second sub-state whose predicate and message function read their
\* second argument, and a third whose message function raises for a value
\* that is not a string:
\*   changed: { validate: (value, old) => value !== old,
\*              message: (value, old) => `Was ${old}.` },
\*   typed:   { validate: (value) => value !== '',
\*              message: (value) => `Typed ${value.trim()}.` }
TextRule ==
  [present |-> TRUE, message |-> "Please enter some text.",
   comparison |-> "", validate |-> "text", data |-> "maxLength",
   states |-> << [key |-> "characterlimit", validate |-> "characterlimit",
                  message |-> "fn:remaining"],
                 [key |-> "changed", validate |-> "changed",
                  message |-> "fn:was"],
                 [key |-> "typed", validate |-> "typed",
                  message |-> "fn:typed"] >>]

\* a rule whose message is a function of (value, old)
FnMessageRule ==
  [present |-> TRUE, message |-> "fn:was", comparison |-> "",
   validate |-> "text", data |-> "", states |-> <<>>]

\* a rule without a validate function
NoValidateRule ==
  [present |-> TRUE, message |-> "Not checked.", comparison |-> "",
   validate |-> "", data |-> "", states |-> <<>>]

\* a rule without a message
NoMessageRule ==
  [present |-> TRUE, message |-> "", comparison |-> "",
   validate |-> "text", data |-> "", states |-> <<>>]

\* options.fallbackValidation: the default of defaultOptions, or none
Fallbacks == {RequiredRule, NoRule}

RuleNames == {"required", "text", "fn", "novalidate", "nomessage"}

\* what Validation.add is called with: the keys of toAdd in insertion order,
\* each with the rule under it
AddableRules ==
  { << <<"text", TextRule>> >>,
    << <<"fn", FnMessageRule>> >>,
    << <<"text", TextRule>>, <<"novalidate", NoValidateRule>> >>,
    << <<"nomessage", NoMessageRule>>, <<"text", TextRule>> >> }

\* the value a caller's data function reads from the element
NoData == [defined |-> FALSE, maxLength |-> 0]
ElData(el) == [defined |-> TRUE, maxLength |-> el.maxLength]

\* vObj.comparison(newer, older) of defaultValidationMethods.required
requiredComparison(newer, older) ==
  IF TypeOf(older) = "object"
    THEN JSONStringify(older) = JSONStringify(newer)
    ELSE StrictEquals(older, newer)

\* calling vObj.comparison raises when the merged rule has none
ComparisonThrows(vObj) == vObj.comparison = ""
Comparison(vObj, newer, older) == requiredComparison(newer, older)

\* vObj.validate(val): does it raise, and what it returns otherwise
ValidateThrows(vObj, val) ==
  CASE vObj.validate = "required" ->
         /\ TypeOf(val) # "string"
         /\ ~IsArray(val)
         /\ TypeOf(val) = "object"
         /\ ObjectKeysThrows(val)
    [] vObj.validate = "text" -> LengthThrows(val)
    [] OTHER -> TRUE

ValidateHolds(vObj, val) ==
  CASE vObj.validate = "required" ->
         (CASE TypeOf(val) = "string" -> Trim(val.p) # ""
            [] IsArray(val) -> Length(val) > 0
            [] TypeOf(val) = "object" -> KeyCount(val) > 0
            [] OTHER -> Truthy(val))
    [] OTHER -> HasLength(val) /\ Length(val) > 0

\* vObj.states[key].validate(value, previous, data)
StateThrows(st, value, previous, data) ==
  st.validate = "characterlimit" /\ (LengthThrows(value) \/ ~data.defined)

StateHolds(st, value, previous, data) ==
  CASE st.validate = "characterlimit" ->
         HasLength(value) /\ Length(value) <= data.maxLength
    [] st.validate = "changed" -> ~StrictEquals(value, previous)
    [] OTHER -> ~StrictEquals(value, Str(""))

\* a message is a function when it is not a string
IsFunction(message) == message \in {"fn:remaining", "fn:was", "fn:typed"}

\* the text of a message: the string, or what the function returns
Text(tpl, n) == [tpl |-> tpl, n |-> n]
MessageThrows(message, value, previous, data) ==
  \/ message = "fn:remaining" /\ (~data.defined \/ LengthThrows(value))
  \/ message = "fn:typed" /\ value.k # "string"
MessageText(message, value, previous, data) ==
  CASE message = "fn:remaining" ->
         IF HasLength(value)
           THEN Text("characters remaining.", data.maxLength - Length(value))
           ELSE Text("NaN characters remaining.", 0)
    [] message = "fn:was" -> Text("Was " \o TemplateString(previous) \o ".", 0)
    [] message = "fn:typed" -> Text("Typed " \o Trim(value.p) \o ".", 0)
    [] OTHER -> Text(message, 0)

(***************************************************************************)
(* Field registration requests, as the directive's bind builds them.       *)
(***************************************************************************)
IdPool == <<"email", "bio", "age">>
Ids == {IdPool[i] : i \in 1..MaxFields}

\* the element: absent, or an input with a maxLength attribute
NoEl == [present |-> FALSE, maxLength |-> 0]
El(n) == [present |-> TRUE, maxLength |-> n]

\* data-validation-group: none, one name, or an array of names
NoGroup == [isArray |-> FALSE, names |-> {}]
Group(name) == [isArray |-> FALSE, names |-> {name}]
GroupArray(names) == [isArray |-> TRUE, names |-> names]
GroupArgs == {"", "A", "B"}

\* the sub-state names getStates is asked for
StateArgs == {"characterlimit", "changed"}

\* the elements of the form: the rule each is bound to (binding.value,
\* "" when the directive has no value), its group and its input
Bindings ==
  { [validationMethod |-> "", group |-> Group("A"), el |-> El(1)],
    [validationMethod |-> "text", group |-> GroupArray({"A", "B"}),
     el |-> El(0)],
    [validationMethod |-> "text", group |-> NoGroup, el |-> NoEl] }

FieldSpecs ==
  { [id |-> id, title |-> "Title", el |-> b.el, value |-> value,
     validationMethod |-> b.validationMethod, group |-> b.group] :
    id \in Ids \cup {""}, b \in Bindings, value \in Values }

(***************************************************************************)
(* State: the three containers of the one validator.                       *)
(***************************************************************************)
VARIABLES
  _validations,  \* ValidationContainer._validations: rule name -> rule
  _fallback,     \* ValidationContainer._fallback
  _fields,       \* FieldContainer._fields, in insertion order
  _messages      \* MessageContainer._messages: field id -> messages

vars == <<_validations, _fallback, _fields, _messages>>

\* the validator as one value; every operation below maps a validator and
\* its arguments to [v, err, value]: the validator afterwards, the error
\* raised ("" for none) and the value returned
validator ==
  [validations |-> _validations, fallback |-> _fallback,
   fields |-> _fields, messages |-> _messages]

Returned(v, value) == [v |-> v, err |-> "", value |-> value]
Raised(v, err) == [v |-> v, err |-> err, value |-> "undefined"]

\* a validity as a call hands it back
Bool(b) == IF b THEN "true" ELSE "false"

(***************************************************************************)
(* ValidationContainer                                                     *)
(***************************************************************************)
\* the rule stored under id, if any
Lookup(v, id) == IF id \in RuleNames THEN v.validations[id] ELSE NoRule

\* ValidationContainer.get raises without a rule and without a fallback
getThrows(v, id) == ~v.fallback.present /\ ~Lookup(v, id).present

\* a get that hands back what is stored under id, without the fallback
get_Unmerged(v, id) == Lookup(v, id)

\* Object.assign({}, this._fallback, validation): a shallow merge; the
\* properties the rule has win, the fallback fills the rest
get(v, id) ==
  LET r == Lookup(v, id)
      fb == v.fallback
      pick(a, b) == IF a # "" THEN a ELSE b
  IN IF ~r.present THEN fb
     ELSE [present |-> TRUE,
           message |-> pick(r.message, fb.message),
           comparison |-> pick(r.comparison, fb.comparison),
           validate |-> pick(r.validate, fb.validate),
           data |-> pick(r.data, fb.data),
           states |-> r.states]

\* ValidationContainer._isValidation(obj)
_isValidation(obj) ==
  obj.present /\ obj.validate # "" /\ obj.message # "" /\ ~IsFunction(obj.message)

(***************************************************************************)
(* FieldContainer                                                          *)
(***************************************************************************)
\* FieldContainer.has(id)
has(fields, id) == \E i \in 1..Len(fields) : fields[i].id = id

\* FieldContainer.get(id), as the position of the first field with this id
\* (0 when there is none)
IndexOf(fields, id) ==
  IF id # "" /\ has(fields, id)
    THEN CHOOSE i \in 1..Len(fields) :
           fields[i].id = id /\ \A j \in 1..(i - 1) : fields[j].id # id
    ELSE 0

\* typeof obj === 'object' && obj.id && obj.el
_isValidField(obj) == obj.id # "" /\ obj.el.present

\* the object FieldContainer.add pushes for obj (obj.data is already set)
NewField(obj, data) ==
  [id |-> obj.id, title |-> obj.title, el |-> obj.el, group |-> obj.group,
   data |-> data,
   dirty |-> FALSE, touched |-> FALSE, valid |-> "null",
   hasStates |-> FALSE, states |-> <<>>, classList |-> {},
   value |-> clone(obj.value), initialValue |-> clone(obj.value),
   validationMethod |->
     IF obj.validationMethod # "" THEN obj.validationMethod ELSE "required"]

\* an add that pushes the field without asking has(id)
addField_Always(fields, obj, data) == Append(fields, NewField(obj, data))

\* FieldContainer.add(obj), for an obj that passes _isValidField or is
\* already there
addField(fields, obj, data) ==
  IF ~has(fields, obj.id) THEN Append(fields, NewField(obj, data)) ELSE fields

\* a filter that compares the group attribute with the name only
InGroup_ScalarOnly(field, group) == field.group.names = {group}

\* the filter of FieldContainer.all(group)
InGroup(field, group) ==
  IF field.group.isArray THEN group \in field.group.names
  ELSE field.group.names = {group}

\* FieldContainer.all(group): the positions of the fields in scope, in order
all(fields, group) ==
  IF group # ""
    THEN SelectSeq([i \in 1..Len(fields) |-> i],
                   LAMBDA i : InGroup(fields[i], group))
    ELSE [i \in 1..Len(fields) |-> i]

\* the caller's object after the caller has set its property a
Mutated(value) ==
  IF value.o = "caller" THEN Obj("a", "", "caller") ELSE value

\* the stored fields after the caller changed its object: what aliases it
\* changes, a copy does not
mutateCaller(fields) ==
  [i \in 1..Len(fields) |->
     [fields[i] EXCEPT !.value = Mutated(@), !.initialValue = Mutated(@)]]

(***************************************************************************)
(* MessageContainer                                                        *)
(***************************************************************************)
\* a reset that keeps what is stored
reset_Keep(messages, fieldId) ==
  [k \in DOMAIN messages \cup {fieldId} |->
     IF k \in DOMAIN messages THEN messages[k] ELSE <<>>]

\* MessageContainer.reset(fieldId): this._messages[fieldId] = []
reset(messages, fieldId) ==
  [k \in DOMAIN messages \cup {fieldId} |->
     IF k = fieldId THEN <<>> ELSE messages[k]]

\* MessageContainer.add(fieldId, obj)
add(messages, fieldId, obj) ==
  [k \in DOMAIN messages \cup {fieldId} |->
     IF k = fieldId
       THEN Append(IF k \in DOMAIN messages THEN messages[k] ELSE <<>>,
                   [id |-> obj.id, title |-> obj.title, message |-> obj.message])
       ELSE messages[k]]

\* this._messages[fieldId], [] when there is no entry
MessagesOf(messages, fieldId) ==
  IF fieldId \in DOMAIN messages THEN messages[fieldId] ELSE <<>>

\* what a getter returns for nothing: undefined
Absent == [id |-> "undefined", title |-> "undefined", message |-> Text("", 0)]

\* MessageContainer.first(fieldId)
first(messages, fieldId) ==
  IF fieldId \in DOMAIN messages
    THEN IF messages[fieldId] # <<>> THEN messages[fieldId][1] ELSE Absent
    ELSE Absent

(***************************************************************************)
(* Validator                                                               *)
(***************************************************************************)
\* options.applyClasses of defaultOptions
applyClasses == TRUE

\* classList.add / classList.remove, chosen by a condition
Toggle(classList, name, on) ==
  IF on THEN classList \cup {name} ELSE classList \ {name}

\* const changed = !vObj.comparison(field.initialValue, value)
changedOf(vObj, field, value) == ~Comparison(vObj, field.initialValue, value)

\* a touched that only reflects the latest change
touchedOf_Latest(field, changed) == changed

\* a touched that no revalidation sets
touchedOf_Never(field, changed) == field.touched

\* touched: field.touched || changed
touchedOf(field, changed) == field.touched \/ changed

\* valid: vObj.validate(value)
validOf(vObj, value) == ValidateHolds(vObj, value)

\* a revalidation that computes the rule's data again
cachedData_Recompute(vObj, field) ==
  IF vObj.data # "" THEN ElData(field.el) ELSE NoData

\* the data a revalidation hands to the sub-states and leaves on the field:
\* field.data as it is, since the object that Object.assign(field, {value,
\* dirty, touched, valid, states}) assigns has no data key
cachedData(vObj, field) == field.data

\* an evaluation of the sub-states that reads the value already assigned
EvalStates_AfterAssign(vObj, field, value) ==
  [k \in 1..Len(vObj.states) |->
     [key |-> vObj.states[k].key,
      val |-> StateHolds(vObj.states[k], value, clone(value),
                         cachedData(vObj, field))]]

\* the reduce over Object.keys(vObj.states) that evaluates the sub-states
\* against (value, the value stored so far, the cached data)
EvalStates(vObj, field, value) ==
  [k \in 1..Len(vObj.states) |->
     [key |-> vObj.states[k].key,
      val |-> StateHolds(vObj.states[k], value, field.value,
                         cachedData(vObj, field))]]

EvalStatesThrows(vObj, field, value) ==
  \E k \in 1..Len(vObj.states) :
    StateThrows(vObj.states[k], value, field.value, cachedData(vObj, field))

\* the 'invalid' message pushed when the field is not valid; the message
\* function is handed (value, field.value) after field.value was assigned
InvalidMessage(vObj, field, value) ==
  [id |-> "invalid", title |-> field.title,
   message |-> MessageText(vObj.message, value, field.value, NoData)]

\* the message pushed for an active sub-state that has one
StateMessage(def, field, value) ==
  [id |-> def.key, title |-> field.title,
   message |-> MessageText(def.message, value, field.value, field.data)]

\* the forEach over Object.keys(field.states), from position k on: toggles
\* the class of each sub-state and collects the messages of the active
\* ones; acc = [classList, messages, err], and a raising message function
\* ends the loop
RECURSIVE StatesLoop(_, _, _, _, _)
StatesLoop(vObj, field, value, k, acc) ==
  IF k > Len(field.states) THEN acc
  ELSE
    LET st == field.states[k]
        def == vObj.states[k]
        cl == IF applyClasses THEN Toggle(acc.classList, st.key, st.val)
              ELSE acc.classList
    IN IF st.val /\ def.message # ""
         THEN IF MessageThrows(def.message, value, field.value, field.data)
                THEN [acc EXCEPT !.classList = cl, !.err = "TypeError"]
                ELSE StatesLoop(vObj, field, value, k + 1,
                       [acc EXCEPT
                          !.classList = cl,
                          !.messages = Append(@, StateMessage(def, field, value))])
         ELSE StatesLoop(vObj, field, value, k + 1,
                         [acc EXCEPT !.classList = cl])

\* messages.forEach((message) => this.messageContainer.add(field.id, message))
RECURSIVE AddAll(_, _, _, _)
AddAll(messages, fieldId, list, k) ==
  IF k > Len(list) THEN messages
  ELSE AddAll(add(messages, fieldId, list[k]), fieldId, list, k + 1)

\* Validator._validateField(field, value) on the field at position i
_validateField(v, i, value) ==
  IF i = 0 THEN Raised(v, "TypeError")
  ELSE
  LET field == v.fields[i]
      vObj == get(v, field.validationMethod)
  IN
  IF getThrows(v, field.validationMethod)
    THEN Raised(v, "No known validation")
  ELSE IF ComparisonThrows(vObj) \/ ValidateThrows(vObj, value)
          \/ EvalStatesThrows(vObj, field, value)
    THEN Raised(v, "TypeError")
  ELSE
  LET changed == changedOf(vObj, field, value)
      valid == validOf(vObj, value)
      assigned ==
        [field EXCEPT
           !.value = clone(value),
           !.dirty = changed,
           !.touched = touchedOf(field, changed),
           !.valid = Bool(valid),
           !.hasStates = TRUE,
           !.states = EvalStates(vObj, field, value),
           !.data = cachedData(vObj, field)]
      classes ==
        IF applyClasses
          THEN Toggle(Toggle(field.classList, "invalid", ~valid),
                      "pristine", ~changed)
          ELSE field.classList
      cleared == reset(v.messages, field.id)
      mainThrows ==
        ~valid /\ MessageThrows(vObj.message, value, assigned.value, NoData)
      invalid == IF ~valid THEN <<InvalidMessage(vObj, assigned, value)>> ELSE <<>>
      loop == StatesLoop(vObj, assigned, value, 1,
                [classList |-> classes, messages |-> invalid, err |-> ""])
      after(cl, m) ==
        [v EXCEPT !.fields[i] = [assigned EXCEPT !.classList = cl],
                  !.messages = m]
  IN
  IF mainThrows THEN Raised(after(classes, cleared), "TypeError")
  ELSE IF loop.err # "" THEN Raised(after(loop.classList, cleared), loop.err)
  ELSE Returned(after(loop.classList,
                      AddAll(cleared, field.id, loop.messages, 1)),
                Bool(valid))

\* the data function of a rule: does it raise, and what it returns
DataThrows(vObj, obj) == vObj.data # "" /\ ~obj.el.present
DataOf(vObj, obj) == IF vObj.data # "" THEN ElData(obj.el) ELSE NoData

\* Validator.register(field)
register(v, field) ==
  LET vObj == get(v, field.validationMethod)
      added == [v EXCEPT !.fields = addField(@, field, DataOf(vObj, field))]
      r == _validateField(added, IndexOf(added.fields, field.id), field.value)
  IN
  IF getThrows(v, field.validationMethod) THEN Raised(v, "No known validation")
  ELSE IF DataThrows(vObj, field) THEN Raised(v, "TypeError")
  ELSE IF ~has(v.fields, field.id) /\ ~_isValidField(field)
    THEN Raised(v, "Not a valid field.")
  ELSE IF r.err # "" THEN r
  ELSE Returned(r.v, "undefined")

\* a validate that revalidates even an unchanged value
validate_Always(v, id, value) ==
  IF IndexOf(v.fields, id) = 0 THEN Raised(v, "TypeError")
  ELSE _validateField(v, IndexOf(v.fields, id), value)

\* a validate that registers the field it does not find, with the default
\* rule, and returns quietly without an id
validate_Lenient(v, id, value) ==
  LET i == IndexOf(v.fields, id)
      lazy == [id |-> id, title |-> "", el |-> El(0), value |-> value,
               validationMethod |-> "", group |-> NoGroup]
  IN
  IF id = "" THEN Returned(v, "undefined")
  ELSE IF i = 0
    THEN Returned([v EXCEPT !.fields = addField(@, lazy, NoData)], "undefined")
  ELSE IF getThrows(v, v.fields[i].validationMethod)
    THEN Raised(v, "No known validation")
  ELSE IF ComparisonThrows(get(v, v.fields[i].validationMethod))
    THEN Raised(v, "TypeError")
  ELSE IF ~Comparison(get(v, v.fields[i].validationMethod), value,
                      v.fields[i].value)
    THEN _validateField(v, i, value)
  ELSE Returned(v, "undefined")

\* Validator.validate(id, value)
validate(v, id, value) ==
  LET i == IndexOf(v.fields, id)
      field == v.fields[i]
      vObj == get(v, field.validationMethod)
  IN
  IF id = "" THEN Raised(v, "Unable to validate field without id.")
  ELSE IF i = 0 THEN Raised(v, "TypeError")
  ELSE IF getThrows(v, field.validationMethod)
    THEN Raised(v, "No known validation")
  ELSE IF ComparisonThrows(vObj) THEN Raised(v, "TypeError")
  ELSE IF ~Comparison(vObj, value, field.value)
    THEN _validateField(v, i, value)
  ELSE Returned(v, "undefined")

\* Validator.getDirty(group): the positions of the dirty fields in scope
getDirty(v, group) ==
  Returned(v, SelectSeq(all(v.fields, group), LAMBDA i : v.fields[i].dirty))

\* Validator.getTouched(group)
getTouched(v, group) ==
  Returned(v, SelectSeq(all(v.fields, group), LAMBDA i : v.fields[i].touched))

\* field.states[name] === true
StateIsTrue(field, name) ==
  \E k \in 1..Len(field.states) :
    field.states[k].key = name /\ field.states[k].val

\* Validator.getStates(name, group)
getStates(v, name, group) ==
  Returned(v, SelectSeq(all(v.fields, group),
                        LAMBDA i : StateIsTrue(v.fields[i], name)))

\* the reduce of validateAll over the positions in scope, from the k-th on;
\* acc is the call so far, its value the conjunction so far
RECURSIVE validateAllFrom(_, _, _)
validateAllFrom(scope, k, acc) ==
  IF k > Len(scope) \/ acc.err # "" THEN acc
  ELSE
    LET i == scope[k]
        r == _validateField(acc.v, i, acc.v.fields[i].value)
    IN validateAllFrom(scope, k + 1,
         IF r.err # "" THEN r
         ELSE Returned(r.v, Bool(acc.value = "true" /\ r.value = "true")))

\* a validateAll that goes over every field whatever the group
validateAll_Everything(v, group) ==
  validateAllFrom(all(v.fields, ""), 1, Returned(v, "true"))

\* Validator.validateAll(group)
validateAll(v, group) ==
  validateAllFrom(all(v.fields, group), 1, Returned(v, "true"))

\* a reset that goes over the fields of the group only
resetScope_Group(fields, group) == all(fields, group)

\* the fields Validator.reset goes over: this.fieldContainer.all()
resetScope(fields, group) == all(fields, "")

\* the forEach of reset over the positions in scope, from the k-th on
RECURSIVE resetFrom(_, _, _)
resetFrom(scope, k, acc) ==
  IF k > Len(scope) \/ acc.err # "" THEN acc
  ELSE
    LET i == scope[k]
        rebased ==
          [acc.v EXCEPT !.fields[i].initialValue = acc.v.fields[i].value]
        r == _validateField(rebased, i, rebased.fields[i].value)
    IN resetFrom(scope, k + 1, IF r.err # "" THEN r ELSE Returned(r.v, "undefined"))

\* $validation.reset called with a group name, the way validateAll is; the
\* plugin's `() => validator.reset()` passes no argument on
resetAll(v, group) ==
  resetFrom(resetScope(v.fields, group), 1, Returned(v, "undefined"))

\* the body of the forEach of ValidationContainer.add for one key
addRule(v, name, rule) ==
  IF _isValidation(rule)
    THEN Returned([v EXCEPT !.validations[name] = rule], "undefined")
    ELSE Raised(v, "Not a correct validation object.")

\* the forEach of ValidationContainer.add over the keys of toAdd, from the
\* k-th on; the throw of _isValidation ends it
RECURSIVE addFrom(_, _, _)
addFrom(toAdd, k, acc) ==
  IF k > Len(toAdd) \/ acc.err # "" THEN acc
  ELSE addFrom(toAdd, k + 1, addRule(acc.v, toAdd[k][1], toAdd[k][2]))

\* ValidationContainer.add(toAdd), through Plugin.add
addRules(v, toAdd) == addFrom(toAdd, 1, Returned(v, "undefined"))

(***************************************************************************)
(* The state after Plugin.install, with the default fallbackValidation or   *)
(* with none.                                                              *)
(***************************************************************************)
Init ==
  /\ _validations = [n \in RuleNames |->
                       IF n = "required" THEN RequiredRule ELSE NoRule]
  /\ _fallback \in Fallbacks
  /\ _fields = <<>>
  /\ _messages = [k \in {} |-> <<>>]

(***************************************************************************)
(* Calls: each one applies an operation to the validator and keeps what it *)
(* leaves, whether it returned or raised (r is the one result of the call).*)
(***************************************************************************)
Add(toAdd) ==
  \E r \in {addRules(validator, toAdd)} :
     /\ _validations' = r.v.validations
     /\ _fallback' = r.v.fallback
     /\ _fields' = r.v.fields
     /\ _messages' = r.v.messages

Register(field) ==
  \E r \in {register(validator, field)} :
     /\ _validations' = r.v.validations
     /\ _fallback' = r.v.fallback
     /\ _fields' = r.v.fields
     /\ _messages' = r.v.messages

Validate(id, value) ==
  \E r \in {validate(validator, id, value)} :
     /\ _validations' = r.v.validations
     /\ _fallback' = r.v.fallback
     /\ _fields' = r.v.fields
     /\ _messages' = r.v.messages

ValidateAll(group) ==
  \E r \in {validateAll(validator, group)} :
     /\ _validations' = r.v.validations
     /\ _fallback' = r.v.fallback
     /\ _fields' = r.v.fields
     /\ _messages' = r.v.messages

Reset(group) ==
  \E r \in {resetAll(validator, group)} :
     /\ _validations' = r.v.validations
     /\ _fallback' = r.v.fallback
     /\ _fields' = r.v.fields
     /\ _messages' = r.v.messages

GetDirty(group) ==
  \E r \in {getDirty(validator, group)} :
     /\ _validations' = r.v.validations
     /\ _fallback' = r.v.fallback
     /\ _fields' = r.v.fields
     /\ _messages' = r.v.messages

GetTouched(group) ==
  \E r \in {getTouched(validator, group)} :
     /\ _validations' = r.v.validations
     /\ _fallback' = r.v.fallback
     /\ _fields' = r.v.fields
     /\ _messages' = r.v.messages

GetStates(name, group) ==
  \E r \in {getStates(validator, name, group)} :
     /\ _validations' = r.v.validations
     /\ _fallback' = r.v.fallback
     /\ _fields' = r.v.fields
     /\ _messages' = r.v.messages

\* the caller sets a property of the object it handed in; a stored value
\* that is this very object changes with it
MutateCallerValue ==
  /\ _fields' = mutateCaller(_fields)
  /\ UNCHANGED <<_validations, _fallback, _messages>>

Next ==
  \/ \E toAdd \in AddableRules : Add(toAdd)
  \/ \E field \in FieldSpecs : Register(field)
  \/ \E id \in Ids \cup {""}, value \in Values : Validate(id, value)
  \/ \E group \in GroupArgs : ValidateAll(group)
  \/ \E group \in GroupArgs : Reset(group)
  \/ \E group \in GroupArgs : GetDirty(group)
  \/ \E group \in GroupArgs : GetTouched(group)
  \/ \E name \in StateArgs, group \in GroupArgs : GetStates(name, group)
  \/ MutateCallerValue

Spec == Init /\ [][Next]_vars

(***************************************************************************)
(* Properties.                                                             *)
(***************************************************************************)
\* the rule a stored field is validated with
RuleOf(v, field) == get(v, field.validationMethod)

\* the attributes of a field the store keeps, without its element's classes
Core(field) ==
  [id |-> field.id, value |-> field.value,
   initialValue |-> field.initialValue, dirty |-> field.dirty,
   touched |-> field.touched, valid |-> field.valid,
   states |-> field.states, validationMethod |-> field.validationMethod,
   group |-> field.group]

\* C1: touched is monotonic: no call moves a field's touched flag from true
\* to false, and the field stays where it is in the store.
C1_TouchedMonotonic ==
  [][\A i \in 1..Len(_fields) :
       _fields[i].touched =>
         /\ Len(_fields') >= i
         /\ _fields'[i].id = _fields[i].id
         /\ _fields'[i].touched]_vars

\* a field that was touched and is back on its baseline
C1_Witness ==
  \E i \in 1..Len(_fields) :
    /\ _fields[i].touched
    /\ ~_fields[i].dirty
    /\ _fields[i].value = _fields[i].initialValue

\* dirty says whether the stored value differs from the stored baseline
\* under the field's rule
DirtyConsistent(v, field) ==
  field.dirty <=> ~Comparison(RuleOf(v, field), field.initialValue, field.value)

\* what the calls of the model leave, one result for each call and input
CallResults(v) ==
  {register(v, field) : field \in FieldSpecs}
    \cup {validate(v, id, value) : id \in Ids, value \in Values}
    \cup {validateAll(v, group) : group \in GroupArgs}
    \cup {resetAll(v, group) : group \in GroupArgs}

\* the step is a call of registerField, validate, validateAll or reset that
\* returned normally
ReturnsNormally ==
  \E r \in CallResults(validator) : r.err = "" /\ r.v = validator'

\* C2: every registered field is dirty exactly when its stored value differs
\* from its stored initialValue under its rule's equality function, after
\* any calls that returned normally: where it holds of every field, a call
\* that returns normally leaves it holding of every field.
C2_DirtyInvariant ==
  [][(/\ \A i \in 1..Len(_fields) : DirtyConsistent(validator, _fields[i])
      /\ ReturnsNormally) =>
       \A i \in 1..Len(_fields') : DirtyConsistent(validator', _fields'[i])]_vars

\* valid is set and is what the field's rule says of the stored value
ValidConsistent(v, field) ==
  /\ field.valid # "null"
  /\ ~ValidateThrows(RuleOf(v, field), field.value)
  /\ field.valid = Bool(ValidateHolds(RuleOf(v, field), field.value))

\* C3: once registerField has returned for a field, and while the rule
\* registry stays as it is, the field's valid is set and equals the rule's
\* predicate on the stored value: a registration that returns normally
\* leaves the new field so, and no call but a rule registration ends it.
C3_ValidInvariant ==
  [][_validations' = _validations =>
       \A i \in 1..Len(_fields') :
         \/ /\ i <= Len(_fields)
            /\ ~ValidConsistent(validator, _fields[i])
         \/ /\ i > Len(_fields)
            /\ ~ReturnsNormally
         \/ ValidConsistent(validator', _fields'[i])]_vars

\* how many messages of a list carry this state id
RECURSIVE CountId(_, _)
CountId(list, id) ==
  IF list = <<>> THEN 0
  ELSE (IF Head(list).id = id THEN 1 ELSE 0) + CountId(Tail(list), id)

\* the rule of the field declares a message for the sub-state key
DeclaresMessage(v, field, key) ==
  \E k \in 1..Len(RuleOf(v, field).states) :
    /\ RuleOf(v, field).states[k].key = key
    /\ RuleOf(v, field).states[k].message # ""

\* the messages of a field are those its valid and its sub-states call for
MessagesConsistent(v, field) ==
  LET m == MessagesOf(v.messages, field.id)
  IN /\ CountId(m, "invalid") = IF field.valid = "false" THEN 1 ELSE 0
     /\ \A k \in 1..Len(field.states) :
          CountId(m, field.states[k].key) =
            IF field.states[k].val /\ DeclaresMessage(v, field, field.states[k].key)
              THEN 1 ELSE 0
     /\ \A j \in 1..Len(m) :
          \/ m[j].id = "invalid"
          \/ \E k \in 1..Len(field.states) : field.states[k].key = m[j].id

\* C4: every field that has been revalidated has exactly one "invalid"
\* message when it is not valid and none when it is, exactly one message
\* for each sub-state that is true and declares a message, and no other.
C4_MessageConsistency ==
  \A i \in 1..Len(_fields) :
    _fields[i].valid # "null" => MessagesConsistent(validator, _fields[i])

\* an invalid field with an active sub-state: two messages
C4_Witness ==
  \E i \in 1..Len(_fields) :
    /\ _fields[i].valid = "false"
    /\ \E k \in 1..Len(_fields[i].states) : _fields[i].states[k].val
    /\ Len(MessagesOf(_messages, _fields[i].id)) = 2

\* C5: registering an id that is already registered is a no-op: the stored
\* fields and the messages are what they were before the call (stated for
\* stores in which every field has been validated).
C5_IdempotentRegistration ==
  [][\A field \in FieldSpecs :
       (/\ has(_fields, field.id)
        /\ \A i \in 1..Len(_fields) : _fields[i].valid # "null"
        /\ Register(field)) =>
         /\ Len(_fields') = Len(_fields)
         /\ \A i \in 1..Len(_fields) : Core(_fields'[i]) = Core(_fields[i])
         /\ _messages' = _messages]_vars

\* the field is in the scope a group argument names: every field when the
\* group is omitted
InScope(field, group) == group = "" \/ InGroup(field, group)

\* the supplied value equals the baseline under the field's rule
EqualsBaseline(v, field, value) ==
  Comparison(RuleOf(v, field), field.initialValue, value)

\* C6: after a reset that returned normally every in-scope field has dirty
\* false and initialValue equal to its value, and each of the next two
\* validate calls on it that returns normally leaves dirty true exactly when
\* the value it supplied is not equal to that baseline.
C6_DirtyReflectsBaseline ==
  \A g \in GroupArgs :
    LET r0 == resetAll(validator, g)
    IN r0.err = "" =>
         \A i \in 1..Len(_fields) :
           InScope(_fields[i], g) =>
             LET f0 == r0.v.fields[i]
             IN /\ ~f0.dirty
                /\ f0.initialValue = f0.value
                /\ \A v1 \in Values, v2 \in Values :
                     LET r1 == validate(r0.v, f0.id, v1)
                         r2 == validate(r1.v, f0.id, v2)
                     IN /\ r1.err = "" =>
                             (r1.v.fields[i].dirty <=>
                                ~EqualsBaseline(r0.v, f0, v1))
                        /\ (r1.err = "" /\ r2.err = "") =>
                             (r2.v.fields[i].dirty <=>
                                ~EqualsBaseline(r0.v, f0, v2))

\* C7 as claimed: reset(group) leaves every field outside the group with
\* its initialValue, its dirty flag and its messages.
C7_ResetScopedToGroup ==
  [][\A g \in GroupArgs \ {""} :
       Reset(g) =>
         \A i \in 1..Len(_fields) :
           ~InGroup(_fields[i], g) =>
             /\ _fields'[i].initialValue = _fields[i].initialValue
             /\ _fields'[i].dirty = _fields[i].dirty
             /\ MessagesOf(_messages', _fields[i].id) =
                  MessagesOf(_messages, _fields[i].id)]_vars

\* C7, amended: reset is not scoped.  Whatever group it is called with, a
\* reset that returns normally sets initialValue := value and clears dirty
\* for every registered field, inside the group or outside it.
C7_ResetCoversEveryField ==
  \A g \in GroupArgs :
    LET r == resetAll(validator, g)
    IN r.err = "" =>
         \A i \in 1..Len(_fields) :
           /\ r.v.fields[i].initialValue = _fields[i].value
           /\ r.v.fields[i].value = _fields[i].value
           /\ ~r.v.fields[i].dirty

\* a dirty field outside the group a reset is called with, which that reset
\* rebases
C7_Witness ==
  \E g \in GroupArgs \ {""} : \E i \in 1..Len(_fields) :
    /\ ~InGroup(_fields[i], g)
    /\ _fields[i].dirty
    /\ resetAll(validator, g).err = ""
    /\ ~resetAll(validator, g).v.fields[i].dirty
    /\ resetAll(validator, g).v.fields[i].initialValue = _fields[i].value

\* C8: a validateAll(group) that returns, returns true exactly when every
\* field in scope is valid after the call (so true for an empty scope).
C8_ValidateAllResult ==
  \A g \in GroupArgs :
    LET r == validateAll(validator, g)
    IN r.err = "" =>
         (r.value = "true" <=>
            \A i \in 1..Len(_fields) :
              InScope(_fields[i], g) => r.v.fields[i].valid = "true")

\* a group with a valid and an invalid field, and a valid field outside it:
\* validateAll of the group returns false
C8_Witness ==
  \E g \in GroupArgs \ {""} :
    LET r == validateAll(validator, g)
    IN /\ r.err = "" /\ r.value = "false"
       /\ \E i \in 1..Len(_fields) :
            InScope(_fields[i], g) /\ r.v.fields[i].valid = "true"
       /\ \E i \in 1..Len(_fields) :
            InScope(_fields[i], g) /\ r.v.fields[i].valid = "false"

\* validate(id, value) finds the field and its rule judges value unchanged
ShortCircuits(v, id, value) ==
  LET i == IndexOf(v.fields, id)
  IN /\ i # 0
     /\ ~getThrows(v, v.fields[i].validationMethod)
     /\ ~ComparisonThrows(RuleOf(v, v.fields[i]))
     /\ Comparison(RuleOf(v, v.fields[i]), value, v.fields[i].value)

\* C9: a validate whose value the rule judges equal to the stored value
\* changes no field and no message.
C9_ShortCircuitNoOp ==
  \A id \in Ids, value \in Values :
    ShortCircuits(validator, id, value) =>
      validate(validator, id, value).v = validator

\* a short-circuiting validate where a revalidation would have changed the
\* stores
C9_Witness ==
  \E id \in Ids, value \in Values :
    /\ ShortCircuits(validator, id, value)
    /\ _validateField(validator, IndexOf(_fields, id), value).v # validator

\* C10: a validate that returns, returns the field's validity: the new
\* valid when the value changed, the previous valid when it did not.
C10_ValidateReturnsValid ==
  \A id \in Ids, value \in Values :
    LET r == validate(validator, id, value)
        i == IndexOf(_fields, id)
    IN (i # 0 /\ r.err = "") => r.value = r.v.fields[i].valid

\* every name and rule a call of Validation.add carries
AddedPairs ==
  UNION {{toAdd[k] : k \in 1..Len(toAdd)} : toAdd \in AddableRules}

\* the rule has a callable predicate and a string or callable message
WellFormed(rule) == rule.validate # "" /\ rule.message # ""

\* C11: registering one rule succeeds and stores it under its name exactly
\* when its predicate is callable and its message is a string or a callable
\* (so a rule with a function message is registered); otherwise the call
\* raises and the registry entry of that name is what it was.
C11_RuleAcceptance ==
  \A pair \in AddedPairs :
    LET r == addRules(validator, <<pair>>)
    IN IF WellFormed(pair[2])
         THEN r.err = "" /\ r.v.validations[pair[1]] = pair[2]
         ELSE r.err # "" /\ r.v.validations[pair[1]] = _validations[pair[1]]

\* C12: a malformed rule is fatal to its own registration only: after a bulk
\* add, every well-formed rule of the call (here: with a string message) is
\* registered, whether listed before or after a malformed one, and the
\* entries of the names the call does not carry are unchanged.
C12_MalformedRuleIsolated ==
  \A toAdd \in AddableRules :
    LET r == addRules(validator, toAdd)
        names == {toAdd[k][1] : k \in 1..Len(toAdd)}
    IN /\ \A k \in 1..Len(toAdd) :
            (WellFormed(toAdd[k][2]) /\ ~IsFunction(toAdd[k][2].message)) =>
              r.v.validations[toAdd[k][1]] = toAdd[k][2]
       /\ \A n \in RuleNames \ names :
            r.v.validations[n] = _validations[n]

\* C13: resolving a name without a registered rule returns the fallback's
\* predicate and message when a fallback is configured and raises when none
\* is; a resolution that returns, returns a rule with a predicate.  So a
\* field registered under such a name is judged by the fallback's predicate
\* and gets the fallback's message, and without a fallback its registration
\* raises and stores nothing.
C13_FallbackResolution ==
  /\ \A id \in RuleNames \cup {""} :
       /\ ~Lookup(validator, id).present =>
            IF _fallback.present
              THEN /\ ~getThrows(validator, id)
                   /\ get(validator, id).validate = _fallback.validate
                   /\ get(validator, id).message = _fallback.message
              ELSE getThrows(validator, id)
       /\ ~getThrows(validator, id) => get(validator, id).validate # ""
  /\ \A field \in FieldSpecs :
       LET r == register(validator, field)
           i == IndexOf(r.v.fields, field.id)
       IN ~Lookup(validator, field.validationMethod).present =>
            IF _fallback.present
              THEN (r.err = "" /\ ~has(_fields, field.id)) =>
                     /\ r.v.fields[i].valid =
                          Bool(ValidateHolds(_fallback, field.value))
                     /\ r.v.fields[i].valid = "false" =>
                          MessagesOf(r.v.messages, field.id)[1].message =
                            Text(_fallback.message, 0)
              ELSE r.err = "No known validation" /\ r.v = validator

\* a field bound to a name that has no rule, judged invalid by the fallback
\* and carrying the fallback's message
C13_Witness ==
  \E i \in 1..Len(_fields) :
    /\ _fields[i].validationMethod = "text"
    /\ ~Lookup(validator, "text").present
    /\ _fallback = RequiredRule
    /\ _fields[i].valid = "false"
    /\ MessagesOf(_messages, _fields[i].id) =
         << [id |-> "invalid", title |-> "Title",
             message |-> Text("This field is required.", 0)] >>

\* the rule stored under this name has no equality function of its own
LacksEquality(v, method) ==
  Lookup(v, method).present /\ Lookup(v, method).comparison = ""

\* what decides "unchanged" for such a rule: the fallback's equality, or
\* strict equality when no fallback is configured
DefaultUnchanged(v, newer, older) ==
  IF v.fallback.present THEN requiredComparison(newer, older)
  ELSE StrictEquals(older, newer)

\* C14: for a rule registered without its own equality function no call
\* fails for lack of one: registering a new well-formed field with a string
\* value under it returns normally, and so does validate with a string
\* value on a field stored under it, which leaves the stores as they are
\* when the default equality judges the value unchanged.
C14_EqualityDefault ==
  /\ \A field \in FieldSpecs :
       (/\ LacksEquality(validator, field.validationMethod)
        /\ _isValidField(field)
        /\ ~has(_fields, field.id)
        /\ field.value.k = "string") =>
         register(validator, field).err = ""
  /\ \A i \in 1..Len(_fields) : \A value \in Values :
       (/\ LacksEquality(validator, _fields[i].validationMethod)
        /\ _fields[i].data.defined
        /\ value.k = "string") =>
         LET r == validate(validator, _fields[i].id, value)
         IN /\ r.err = ""
            /\ DefaultUnchanged(validator, value, _fields[i].value) =>
                 r.v = validator

\* C15: validate called without an id, or with an id that was never
\* registered, raises and leaves the field store and the message store as
\* they were.
C15_ValidateUnknownField ==
  \A id \in Ids \cup {""} : \A value \in Values :
    ~has(_fields, id) =>
      LET r == validate(validator, id, value)
      IN /\ r.err # ""
         /\ r.v.fields = _fields
         /\ r.v.messages = _messages

\* a store with a validated field and messages, and an id that is not in it
C15_Witness ==
  /\ \E i \in 1..Len(_fields) :
       /\ _fields[i].valid = "false"
       /\ MessagesOf(_messages, _fields[i].id) # <<>>
  /\ \E id \in Ids :
       /\ ~has(_fields, id)
       /\ validate(validator, id, Str("a")).err = "TypeError"
  /\ validate(validator, "", Str("a")).err =
       "Unable to validate field without id."

\* C16: no partial registration: a registerField that raises leaves no field
\* in the store that was not there before the call, and leaves the message
\* store as it was.
C16_NoPartialRegistration ==
  \A field \in FieldSpecs :
    LET r == register(validator, field)
    IN r.err # "" =>
         /\ \A i \in 1..Len(r.v.fields) : has(_fields, r.v.fields[i].id)
         /\ r.v.messages = _messages

\* C17: a field's cached auxiliary data is set at its registration and no
\* later call changes it: every step leaves the data of every stored field
\* as it was, also where the rule's data function would now return
\* something else.
C17_DataComputedOnce ==
  [][\A i \in 1..Len(_fields) :
       /\ Len(_fields') >= i
       /\ _fields'[i].id = _fields[i].id
       /\ _fields'[i].data = _fields[i].data]_vars

\* a revalidated field whose rule has a data function that would not return
\* the data the field caches
C17_Witness ==
  \E i \in 1..Len(_fields) :
    /\ RuleOf(validator, _fields[i]).data # ""
    /\ _fields[i].data # ElData(_fields[i].el)
    /\ _fields[i].valid # "null"
    /\ _fields[i].touched

\* C18: deep-copy isolation: no stored value and no stored initialValue is
\* the object a caller handed in, so the caller changing its object changes
\* neither; in every state the calls leave.
C18_DeepCopyIsolation ==
  /\ \A i \in 1..Len(_fields) :
       /\ _fields[i].value.o # "caller"
       /\ _fields[i].initialValue.o # "caller"
  /\ mutateCaller(_fields) = _fields

\* a field registered and revalidated with the caller's object, whose value
\* and initialValue hold copies of it
C18_Witness ==
  \E i \in 1..Len(_fields) :
    /\ _fields[i].value = Obj("", "", "store")
    /\ _fields[i].initialValue = Obj("", "", "store")
    /\ _fields[i].valid # "null"
    /\ validate(validator, _fields[i].id, Obj("", "a", "caller")).v = validator

\* where the rule declares the sub-state key (0 for "invalid")
StateIndex(vObj, key) ==
  IF \E k \in 1..Len(vObj.states) : vObj.states[k].key = key
    THEN CHOOSE k \in 1..Len(vObj.states) : vObj.states[k].key = key
    ELSE 0

\* C19: in the messages of every revalidated field the "invalid" message,
\* when present, comes first and the sub-state messages follow in the order
\* the rule declares its sub-states; first(fieldId) returns the "invalid"
\* message whenever the field is invalid, and nothing when the field has no
\* messages.
C19_MessageOrder ==
  \A i \in 1..Len(_fields) :
    LET m == MessagesOf(_messages, _fields[i].id)
        vObj == RuleOf(validator, _fields[i])
    IN /\ _fields[i].valid # "null" =>
            \A j \in 1..Len(m) : \A k \in (j + 1)..Len(m) :
              StateIndex(vObj, m[j].id) < StateIndex(vObj, m[k].id)
       /\ _fields[i].valid = "false" =>
            first(_messages, _fields[i].id).id = "invalid"
       /\ m = <<>> => first(_messages, _fields[i].id) = Absent

\* an invalid field with both sub-states active: three messages, and beside
\* it fields without any
C19_Witness ==
  /\ \E i \in 1..Len(_fields) :
       LET m == MessagesOf(_messages, _fields[i].id)
       IN /\ Len(m) = 3
          /\ m[1].id = "invalid"
          /\ m[2].id = "characterlimit"
          /\ m[3].id = "changed"
  /\ \E i \in 1..Len(_fields) :
       /\ _fields[i].valid = "true"
       /\ first(_messages, _fields[i].id) = Absent

\* C20: message functions see the previous value: when a validate changes a
\* validated field's value from p to v, the message of each active sub-state whose
\* message is a function is what that function returns for (v, p, the
\* cached data), p being the value stored before the call.
C20_MessageSeesPrevious ==
  \A i \in 1..Len(_fields) : \A value \in Values :
    LET r == validate(validator, _fields[i].id, value)
        p == _fields[i].value
        vObj == RuleOf(validator, _fields[i])
        m == MessagesOf(r.v.messages, _fields[i].id)
    IN (/\ _fields[i].valid # "null"
        /\ r.err = ""
        /\ ~ShortCircuits(validator, _fields[i].id, value)) =>
         \A j \in 1..Len(m) :
           LET k == StateIndex(vObj, m[j].id)
           IN (k # 0 /\ IsFunction(vObj.states[k].message)) =>
                m[j].message =
                  MessageText(vObj.states[k].message, value, p, _fields[i].data)

\* C21: field ids are unique and fields are never lost: after every step the
\* store holds at most one field per id, every field that was in it is
\* still at its place (so the order of all() is registration order), and a
\* field that is new comes after all the others.
C21_UniqueIdsStableOrder ==
  [][/\ \A i \in 1..Len(_fields') : \A j \in 1..Len(_fields') :
          _fields'[i].id = _fields'[j].id => i = j
     /\ Len(_fields') >= Len(_fields)
     /\ \A i \in 1..Len(_fields) : _fields'[i].id = _fields[i].id
     /\ all(_fields', "") = [i \in 1..Len(_fields') |-> i]]_vars

\* a full store in which a registration of an id that is there adds nothing
C21_Witness ==
  /\ Len(_fields) = MaxFields
  /\ \E field \in FieldSpecs :
       /\ has(_fields, field.id)
       /\ register(validator, field).err = ""
       /\ register(validator, field).v # validator
       /\ Len(register(validator, field).v.fields) = MaxFields

\* the positions, in store order, of the fields that satisfy P
Positions(fields, P(_)) ==
  SelectSeq([i \in 1..Len(fields) |-> i], P)

\* the field belongs to the scope: its group is the name, or its group set
\* contains it; every field when the group is omitted
Scoped(field, group) == group = "" \/ group \in field.group.names

ExpectedStates(vObj, value, previous, data) ==
  [k \in 1..Len(vObj.states) |->
     [key |-> vObj.states[k].key,
      val |-> StateHolds(vObj.states[k], value, previous, data)]]

\* C23: a revalidation of a field with value v that returns leaves as the
\* field's sub-state values exactly the sub-state names of its rule, each
\* with what its predicate gives for (v, the value stored before the
\* revalidation, the field's cached data); for validate with its argument
\* as v and for validateAll with the stored value as v.
C23_SubStateEvaluation ==
  /\ \A i \in 1..Len(_fields) : \A value \in Values :
       LET r == validate(validator, _fields[i].id, value)
       IN (r.err = "" /\ ~ShortCircuits(validator, _fields[i].id, value)) =>
            r.v.fields[i].states =
              ExpectedStates(RuleOf(validator, _fields[i]), value,
                             _fields[i].value, _fields[i].data)
  /\ \A g \in GroupArgs :
       LET r == validateAll(validator, g)
       IN r.err = "" =>
            \A i \in 1..Len(_fields) :
              Scoped(_fields[i], g) =>
                r.v.fields[i].states =
                  ExpectedStates(RuleOf(validator, _fields[i]), _fields[i].value,
                                 _fields[i].value, _fields[i].data)

\* a field whose sub-state changed is true after a validate, and which a
\* validateAll would set back to false
C23_Witness ==
  \E i \in 1..Len(_fields) :
    /\ _fields[i].valid = "true"
    /\ _fields[i].states =
         << [key |-> "characterlimit", val |-> FALSE],
            [key |-> "changed", val |-> TRUE],
            [key |-> "typed", val |-> TRUE] >>
    /\ validateAll(validator, "").err = ""
    /\ ~StateIsTrue(validateAll(validator, "").v.fields[i], "changed")

\* C24: revalidation is atomic under failure: a validate of a registered,
\* validated field that raises leaves the field (value, dirty, touched, valid,
\* sub-state values) and the field's messages as they were.
C24_RevalidationAtomic ==
  \A i \in 1..Len(_fields) : \A value \in Values :
    LET r == validate(validator, _fields[i].id, value)
    IN (_fields[i].valid # "null" /\ r.err # "") =>
         /\ Core(r.v.fields[i]) = Core(_fields[i])
         /\ MessagesOf(r.v.messages, _fields[i].id) =
              MessagesOf(_messages, _fields[i].id)

\* C25: a validateAll(group) that returns changes no field outside the
\* group and none of their messages, leaves value, initialValue, dirty and
\* touched of every field inside the group as they were, and revalidates
\* every field inside it, those after an invalid one too.
C25_ValidateAllFrame ==
  \A g \in GroupArgs :
    LET r == validateAll(validator, g)
    IN r.err = "" =>
         \A i \in 1..Len(_fields) :
           IF Scoped(_fields[i], g)
             THEN /\ r.v.fields[i].value = _fields[i].value
                  /\ r.v.fields[i].initialValue = _fields[i].initialValue
                  /\ r.v.fields[i].dirty = _fields[i].dirty
                  /\ r.v.fields[i].touched = _fields[i].touched
                  /\ r.v.fields[i].valid =
                       Bool(ValidateHolds(RuleOf(validator, _fields[i]),
                                          _fields[i].value))
             ELSE /\ r.v.fields[i] = _fields[i]
                  /\ MessagesOf(r.v.messages, _fields[i].id) =
                       MessagesOf(_messages, _fields[i].id)

\* C26: validateAll is idempotent: a second validateAll(group) right after
\* one that returned also returns, with the same result, and leaves the
\* fields and the messages as the first did.
C26_ValidateAllIdempotent ==
  \A g \in GroupArgs :
    LET r1 == validateAll(validator, g)
        r2 == validateAll(r1.v, g)
    IN r1.err = "" =>
         /\ r2.err = ""
         /\ r2.value = r1.value
         /\ r2.v.fields = r1.v.fields
         /\ r2.v.messages = r1.v.messages

\* a store that the first validateAll changes, in a group with a field that
\* carries messages afterwards
C26_Witness ==
  \E g \in GroupArgs \ {""} :
    LET r1 == validateAll(validator, g)
    IN /\ r1.err = ""
       /\ r1.v # validator
       /\ r1.value = "false"
       /\ \E i \in 1..Len(_fields) :
            /\ Scoped(_fields[i], g)
            /\ Len(MessagesOf(r1.v.messages, _fields[i].id)) >= 2

\* C27: dirty implies touched: in every reachable state every registered
\* field that is dirty is touched.
C27_DirtyImpliesTouched ==
  \A i \in 1..Len(_fields) : _fields[i].dirty => _fields[i].touched

\* a dirty field, and beside it a field that is touched and no longer dirty
C27_Witness ==
  /\ \E i \in 1..Len(_fields) :
       /\ _fields[i].dirty /\ _fields[i].touched
       /\ _fields[i].value # _fields[i].initialValue
  /\ \E j \in 1..Len(_fields) :
       ~_fields[j].dirty /\ _fields[j].touched

\* C28: a freshly registered field is pristine: right after a registerField
\* that returns for a new id the field has dirty false and touched false
\* and its value equals its initialValue, whatever the initial value, an
\* absent (undefined) one included.
C28_FreshFieldPristine ==
  \A field \in FieldSpecs :
    LET r == register(validator, field)
        i == IndexOf(r.v.fields, field.id)
    IN (~has(_fields, field.id) /\ r.err = "") =>
         /\ ~r.v.fields[i].dirty
         /\ ~r.v.fields[i].touched
         /\ r.v.fields[i].value = r.v.fields[i].initialValue


\* one value of every kind a v-model can hold, empty and non-empty
ValueKinds ==
  {Undefined, Null, Str(""), Str(" "), Str("a"), Num("0"), Num("1"),
   Boolean("false"), Boolean("true"), Arr("", "caller"), Arr("a", "caller"),
   Obj("", "", "caller"), Obj("a", "", "caller"), Obj("", "a", "caller")}

\* blank strings, empty arrays, empty objects and falsy values
Blank(val) ==
  \/ val.k = "string" /\ Trim(val.p) = ""
  \/ val.k = "array" /\ Len(val.p) = 0
  \/ val.k = "object" /\ Len(val.p) + Len(val.u) = 0
  \/ val.k \in {"undefined", "null"}
  \/ val = Num("0")
  \/ val = Boolean("false")

\* C29: the default `required` rule is total: for a value of every kind
\* (string, array, object, null, absent, number, boolean) its predicate
\* returns without raising, false for blank strings, empty arrays, empty
\* objects and falsy values and true otherwise; so registering a new field
\* with such a value under `required`, and validating a field registered
\* under `required` with such a value, complete normally.
C29_RequiredTotal ==
  \A val \in ValueKinds :
    /\ ~ValidateThrows(RequiredRule, val)
    /\ ValidateHolds(RequiredRule, val) = ~Blank(val)
    /\ \A field \in FieldSpecs :
         (/\ ~has(_fields, field.id)
          /\ _isValidField(field)) =>
           register(validator,
                    [field EXCEPT !.validationMethod = "required",
                                  !.value = val]).err = ""
    /\ \A i \in 1..Len(_fields) :
         (/\ ~getThrows(validator, _fields[i].validationMethod)
          /\ RuleOf(validator, _fields[i]) = RequiredRule
          /\ _fields[i].valid # "null") =>
           validate(validator, _fields[i].id, val).err = ""

====
